---- MODULE Spec2Model ----
(***************************************************************************)
(* Model of src/test_util/atmega328-factorial.cpp: the routine factorial   *)
(* and the client loop run_test, which hands factorial and the inputs      *)
(* 0..7 to the primitive `call` of libavrlit/avr-lit.hpp.                  *)
(*                                                                         *)
(* factorial is modelled statement by statement.  Its accumulator fac and  *)
(* its counter i are `auto` variables initialised from the literal 1, so   *)
(* they are native signed ints: 16 bits wide when the routine is built for *)
(* the AVR target, 32 bits wide on the host.  Signed overflow is undefined *)
(* behaviour: the build either wraps (two's complement) or traps, and      *)
(* which of the two is fixed per build (ovfMode).                          *)
(*                                                                         *)
(* `call` is not part of the file.  Its activation is modelled only as far *)
(* as the client can observe it: it is entered with an argument, the       *)
(* routine is executed once per side (host, target), and it returns with   *)
(* an outcome that the model leaves unconstrained.                         *)
(***************************************************************************)
EXTENDS Integers, Sequences, FiniteSets

VARIABLES rt_pc, i, calls, outcomes, call_pc, call_n, frames, ovfMode, seen

vars == <<rt_pc, i, calls, outcomes, call_pc, call_n, frames, ovfMode, seen>>

----------------------------------------------------------------------------
(* Bounds of the model *)

\* largest argument the stand-alone driver of factorial passes
MaxN == 8

\* search range for the largest input representable in unsigned long long
MaxSearch == 24

----------------------------------------------------------------------------
(* Program constants *)

\* run_test: for (unsigned long long i=0; i<=7; i++)
LoopFirst == 0
LoopLast == 7

\* width of int on the atmega328 target and on the host
IntBitsTarget == 16
IntBitsHost == 32

\* width in bytes of unsigned long long, the parameter and return type
ULLBytes == 8

Sides == {"host", "target"}

\* no earlier invocation is remembered
NoneSeen == [n |-> -1, host |-> << >>, target |-> << >>, between |-> FALSE]

IntBits(s) == IF s = "target" THEN IntBitsTarget ELSE IntBitsHost

Outcomes == {"Pass", "Fail", "Error"}

----------------------------------------------------------------------------
(* Native int arithmetic *)

RECURSIVE Pow2(_)
Pow2(k) == IF k = 0 THEN 1 ELSE 2 * Pow2(k - 1)

MaxInt(w) == (Pow2(w - 2) - 1) * 2 + 1
MinInt(w) == (-MaxInt(w)) - 1

\* a * b is representable in a w-bit signed int (b >= 1)
MulFits(a, b, w) ==
    /\ a <= MaxInt(w) \div b
    /\ a >= (MinInt(w) + b - 1) \div b

\* two's complement wrap of v into a w-bit signed int (w < 32)
Wrap(v, w) == ((v - MinInt(w)) % Pow2(w)) + MinInt(w)

\* i <= n with i an int and n an unsigned long long: i is converted to
\* unsigned long long, so a negative i compares greater than any small n
ILeN(iv, n) == iv >= 0 /\ iv <= n

\* conversion of a w-bit int to unsigned long long, as the ULLBytes bytes
\* of the result, least significant first (sign extension)
ToULL(v, w) ==
    [k \in 1..ULLBytes |->
        IF 8 * (k - 1) < w
        THEN (v \div Pow2(8 * (k - 1))) % 256
        ELSE IF v < 0 THEN 255 ELSE 0]

\* the result of an execution that trapped: no value
Trapped == << >>

----------------------------------------------------------------------------
(* factorial *)

\* auto fac = 1;
StaticFacInit(s) == IF frames[s].pc = "idle" THEN 1 ELSE frames[s].fac
FacInit(s) == 1

\* for(auto i=1; ...
IInit == 1

\* ... i<=n; ...
OffByOneLoopCond(f) == ILeN(f.i, f.n + 1)
StrictLoopCond(f) == f.i >= 0 /\ f.i < f.n
LoopCond(f) == ILeN(f.i, f.n)

IdleFrame == [pc |-> "idle", n |-> 0, fac |-> 0, i |-> 0, ret |-> Trapped]

\* entry of factorial(n) on side s: the locals are initialised
Enter(s, n) ==
    [pc |-> "test", n |-> n, fac |-> FacInit(s), i |-> IInit, ret |-> Trapped]

factorial_test(s) ==
    /\ frames[s].pc = "test"
    /\ frames' = [frames EXCEPT ![s].pc =
                      IF LoopCond(frames[s]) THEN "body" ELSE "return"]
    /\ UNCHANGED <<rt_pc, i, calls, outcomes, call_pc, call_n, ovfMode, seen>>

\* fac *= i;
factorial_body(s) ==
    /\ frames[s].pc = "body"
    /\ LET f == frames[s]
           w == IntBits(s)
       IN  frames' = [frames EXCEPT ![s] =
               IF MulFits(f.fac, f.i, w)
               THEN [f EXCEPT !.fac = f.fac * f.i, !.pc = "inc"]
               ELSE IF ovfMode = "wrap"
                    THEN [f EXCEPT !.fac = Wrap(f.fac * f.i, w), !.pc = "inc"]
                    ELSE [f EXCEPT !.pc = "trap"]]
    /\ UNCHANGED <<rt_pc, i, calls, outcomes, call_pc, call_n, ovfMode, seen>>

\* i++
factorial_inc(s) ==
    /\ frames[s].pc = "inc"
    /\ LET f == frames[s]
           w == IntBits(s)
       IN  frames' = [frames EXCEPT ![s] =
               IF f.i < MaxInt(w)
               THEN [f EXCEPT !.i = f.i + 1, !.pc = "test"]
               ELSE IF ovfMode = "wrap"
                    THEN [f EXCEPT !.i = MinInt(w), !.pc = "test"]
                    ELSE [f EXCEPT !.pc = "trap"]]
    /\ UNCHANGED <<rt_pc, i, calls, outcomes, call_pc, call_n, ovfMode, seen>>

\* return fac;
factorial_return(s) ==
    /\ frames[s].pc = "return"
    /\ frames' = [frames EXCEPT ![s].ret = ToULL(frames[s].fac, IntBits(s)),
                                ![s].pc = "ret"]
    /\ UNCHANGED <<rt_pc, i, calls, outcomes, call_pc, call_n, ovfMode, seen>>

Finished(s) == frames[s].pc \in {"ret", "trap"}

----------------------------------------------------------------------------
(* call(factorial, n): the activation as seen by the client *)

\* call is entered with argument n; the host execution starts
call_enter(n) ==
    /\ calls' = Append(calls, n)
    /\ call_n' = n
    /\ call_pc' = "host"
    /\ frames' = [frames EXCEPT !["host"] = Enter("host", n)]

\* the host execution is over; the target execution starts
call_target ==
    /\ call_pc = "host"
    /\ Finished("host")
    /\ call_pc' = "target"
    /\ frames' = [frames EXCEPT !["target"] = Enter("target", call_n)]
    /\ UNCHANGED <<rt_pc, i, calls, outcomes, call_n, ovfMode, seen>>

\* both executions are over
Resolved == call_pc = "target" /\ Finished("target")

\* call returns to run_test with some outcome
call_return ==
    /\ Resolved
    /\ \E o \in Outcomes : outcomes' = Append(outcomes, o)
    /\ call_pc' = "idle"
    /\ UNCHANGED <<rt_pc, i, calls, call_n, frames, ovfMode, seen>>

----------------------------------------------------------------------------
(* run_test *)

\* the statement after call(factorial, i) is reached when call has returned
CallReturnedEarly == TRUE
CallReturned == call_pc = "idle"

\* unsigned long long i=0
RunTestInitOne == LoopFirst + 1
RunTestInit == LoopFirst

\* i<=7
RunTestCondStrict(iv) == iv < LoopLast
RunTestCond(iv) == iv <= LoopLast

\* where run_test goes when call has returned: the i++ of the loop,
\* whatever call returned
AbortOnFailure == IF outcomes[Len(outcomes)] = "Pass" THEN "test" ELSE "done"
AfterCall == "test"

run_test_test ==
    /\ rt_pc = "test"
    /\ rt_pc' = IF RunTestCond(i) THEN "call" ELSE "done"
    /\ UNCHANGED <<i, calls, outcomes, call_pc, call_n, frames, ovfMode, seen>>

\* call(factorial, i);
run_test_call ==
    /\ rt_pc = "call"
    /\ call_enter(i)
    /\ rt_pc' = "wait"
    /\ UNCHANGED <<i, outcomes, ovfMode, seen>>

\* i++
run_test_inc ==
    /\ rt_pc = "wait"
    /\ CallReturned
    /\ i' = i + 1
    /\ rt_pc' = AfterCall
    /\ UNCHANGED <<calls, outcomes, call_pc, call_n, frames, ovfMode, seen>>

Init ==
    /\ rt_pc = "test"
    /\ i = RunTestInit
    /\ calls = << >>
    /\ outcomes = << >>
    /\ call_pc = "idle"
    /\ call_n = 0
    /\ frames = [s \in Sides |-> IdleFrame]
    /\ ovfMode \in {"wrap", "trap"}
    /\ seen = NoneSeen

Next ==
    \/ run_test_test
    \/ run_test_call
    \/ run_test_inc
    \/ call_target
    \/ call_return
    \/ \E s \in Sides : factorial_test(s)
    \/ \E s \in Sides : factorial_body(s)
    \/ \E s \in Sides : factorial_inc(s)
    \/ \E s \in Sides : factorial_return(s)

Spec == Init /\ [][Next]_vars

\* run_test is one sequential thread and factorial's loop is bounded by n:
\* every enabled step is eventually taken
FairSpec == Spec /\ WF_vars(Next)

----------------------------------------------------------------------------
(* factorial called directly, with any argument of 0..MaxN, any number of  *)
(* times                                                                   *)

driver_call ==
    /\ rt_pc = "off"
    /\ call_pc = "idle"
    /\ \E n \in 0..MaxN :
          /\ call_n' = n
          /\ frames' = [frames EXCEPT !["host"] = Enter("host", n)]
    /\ call_pc' = "host"
    /\ UNCHANGED <<rt_pc, i, calls, outcomes, ovfMode, seen>>

\* both executions are over; their results may be kept for a later comparison
driver_finish ==
    /\ rt_pc = "off"
    /\ Resolved
    /\ call_pc' = "idle"
    /\ \E keep \in BOOLEAN :
          seen' = IF keep
                  THEN [n |-> call_n, host |-> frames["host"].ret,
                        target |-> frames["target"].ret, between |-> FALSE]
                  ELSE [seen EXCEPT !.between =
                            @ \/ (seen.n >= 0 /\ seen.n # call_n)]
    /\ UNCHANGED <<rt_pc, i, calls, outcomes, call_n, frames, ovfMode>>

InitFac ==
    /\ rt_pc = "off"
    /\ i = 0
    /\ calls = << >>
    /\ outcomes = << >>
    /\ call_pc = "idle"
    /\ call_n = 0
    /\ frames = [s \in Sides |-> IdleFrame]
    /\ ovfMode \in {"wrap", "trap"}
    /\ seen = NoneSeen

NextFac ==
    \/ driver_call
    \/ driver_finish
    \/ call_target
    \/ \E s \in Sides : factorial_test(s)
    \/ \E s \in Sides : factorial_body(s)
    \/ \E s \in Sides : factorial_inc(s)
    \/ \E s \in Sides : factorial_return(s)

SpecFac == InitFac /\ [][NextFac]_vars

----------------------------------------------------------------------------
(* Values of unsigned long long, read back from their bytes *)

\* the number a byte sequence encodes, for numbers below 2^24
ULLValue(b) ==
    IF Len(b) = ULLBytes /\ \A k \in 4..ULLBytes : b[k] = 0
    THEN b[1] + 256 * b[2] + 65536 * b[3]
    ELSE -1

\* b * k + carry on the bytes b, least significant first: the bytes of the
\* product followed by the carry out
RECURSIVE MulBytes(_, _, _)
MulBytes(b, k, carry) ==
    IF b = << >>
    THEN <<carry>>
    ELSE <<(Head(b) * k + carry) % 256>>
            \o MulBytes(Tail(b), k, (Head(b) * k + carry) \div 256)

\* whether 1 * 2 * ... * n overflows unsigned long long arithmetic, starting
\* from the product b of the factors below k
RECURSIVE ULLOverflowsFrom(_, _, _)
ULLOverflowsFrom(b, k, n) ==
    IF k > n
    THEN FALSE
    ELSE \/ MulBytes(b, k, 0)[ULLBytes + 1] # 0
         \/ ULLOverflowsFrom(SubSeq(MulBytes(b, k, 0), 1, ULLBytes), k + 1, n)

\* n! does not fit unsigned long long
ULLFactorialOverflows(n) ==
    ULLOverflowsFrom([k \in 1..ULLBytes |-> IF k = 1 THEN 1 ELSE 0], 1, n)

\* the largest input whose factorial fits unsigned long long
LargestULLInput ==
    CHOOSE n \in 0..MaxSearch :
        ~ULLFactorialOverflows(n) /\ ULLFactorialOverflows(n + 1)

\* n! fits a w-bit signed int (n <= 12)
RECURSIVE IntFactorial(_)
IntFactorial(n) == IF n = 0 THEN 1 ELSE n * IntFactorial(n - 1)

RECURSIVE FactorialFits(_, _)
FactorialFits(n, w) ==
    \/ n = 0
    \/ /\ FactorialFits(n - 1, w)
       /\ IntFactorial(n - 1) <= MaxInt(w) \div n

\* the largest input whose factorial fits a w-bit signed int
LargestIntInput(w) ==
    CHOOSE n \in 0..12 : FactorialFits(n, w) /\ ~FactorialFits(n + 1, w)

\* the largest input whose factorial fits the int of the target
LargestTargetInput == LargestIntInput(IntBitsTarget)

\* the values the specification lists for the inputs 0..7
Expected == <<1, 1, 2, 6, 24, 120, 720, 5040>>

\* the inputs 0..7 in ascending order
AllInputs == [k \in 1..(LoopLast - LoopFirst + 1) |-> LoopFirst + k - 1]

IsPrefix(a, b) == Len(a) <= Len(b) /\ \A k \in 1..Len(a) : a[k] = b[k]

\* the frame of side s belongs to the call in progress
Current(s) ==
    \/ s = "host" /\ call_pc \in {"host", "target"}
    \/ s = "target" /\ call_pc = "target"

----------------------------------------------------------------------------
(* Claims *)

C3_SevenCalls == rt_pc = "done" => Len(calls) = 7

\* C3 as amended: when run_test returns, call has been invoked exactly eight
\* times (inputs 0..7), and at any time each input passed to call is one
\* greater than the previous one.
C3_EightCalls ==
    /\ rt_pc = "done" => Len(calls) = 8
    /\ \A k \in 2..Len(calls) : calls[k] = calls[k - 1] + 1

C3_Witness == rt_pc = "done" /\ Len(calls) = 8 /\ Len(outcomes) = 8

\* C4: whatever outcome call returns for an input, run_test goes on to
\* invoke call for the remaining inputs in ascending order: the inputs
\* passed so far are always an initial part of 0, 1, ..., 7, and run_test
\* eventually returns having passed every input of 0..7 exactly once.
C4_NeverAborts ==
    /\ [](IsPrefix(calls, AllInputs))
    /\ <>(rt_pc = "done" /\ calls = AllInputs)

C4_Witness ==
    /\ rt_pc = "done"
    /\ calls = AllInputs
    /\ outcomes[1] = "Fail"
    /\ outcomes[2] = "Error"
    /\ outcomes[3] = "Pass"
    /\ outcomes[8] = "Error"

\* C5: at most one call is in progress at any time, and call is invoked for
\* the next input only after the previous call has returned its outcome.
C5_Serialized ==
    /\ Len(calls) - Len(outcomes) \in {0, 1}
    /\ call_pc = "idle" <=> Len(calls) = Len(outcomes)
    /\ rt_pc = "call" => call_pc = "idle"

C5_Witness ==
    /\ call_pc = "target"
    /\ Len(calls) = 3
    /\ Len(outcomes) = 2

\* C6 as stated: the inputs exercised by run_test include n = 0 and the
\* largest input whose factorial is representable in unsigned long long.
C6_LargestULLExercised ==
    rt_pc = "done" =>
        /\ \E k \in 1..Len(calls) : calls[k] = 0
        /\ \E k \in 1..Len(calls) : calls[k] = LargestULLInput

\* C6 as amended: the inputs exercised by run_test include n = 0, for which
\* factorial returns 1 without executing the loop body, and n = 7, the
\* largest input whose factorial is representable in the 16-bit signed int
\* in which factorial accumulates on the target; both return a value, not a
\* trap.  (The largest input representable in unsigned long long is 20.)
C6_BoundaryInputs ==
    /\ LargestTargetInput = LoopLast
    /\ LargestULLInput = 20
    /\ rt_pc = "done" =>
          /\ \E k \in 1..Len(calls) : calls[k] = 0
          /\ \E k \in 1..Len(calls) : calls[k] = LargestTargetInput
    /\ \A s \in Sides :
          /\ frames[s].n = 0 =>
                /\ frames[s].pc \notin {"body", "inc", "trap"}
                /\ frames[s].pc = "ret" => ULLValue(frames[s].ret) = 1
          /\ frames[s].n = LargestTargetInput =>
                /\ frames[s].pc # "trap"
                /\ frames[s].pc = "ret" => ULLValue(frames[s].ret) >= 0

C6_Witness ==
    /\ rt_pc = "done"
    /\ calls[1] = 0
    /\ calls[Len(calls)] = 7
    /\ frames["target"].n = 7
    /\ frames["target"].pc = "ret"

\* C8: the result of factorial depends on n alone: two invocations with the
\* same n return the same value on the same side, whatever invocations were
\* made in between.
C8_SameResult ==
    \A s \in Sides :
        (Current(s) /\ Finished(s) /\ seen.n = call_n) =>
            frames[s].ret = seen[s]

C8_Witness ==
    /\ Resolved
    /\ seen.n = call_n
    /\ seen.between
    /\ call_n = 5

\* C10: for every input run_test exercises (0..7) no value of fac or i
\* exceeds the range of a 16-bit signed int, so the execution with the
\* target's 16-bit int returns the same value as the execution with the
\* host's 32-bit int; for n = 8 the product 40320 does not fit 16 bits and
\* the two executions differ.
C10_SixteenBitsSuffice ==
    /\ \A s \in Sides :
          frames[s].n <= LoopLast =>
             /\ frames[s].pc # "trap"
             /\ frames[s].fac \in 0..MaxInt(IntBitsTarget)
             /\ frames[s].i \in 0..MaxInt(IntBitsTarget)
    /\ (Resolved /\ call_n <= LoopLast) =>
          frames["host"].ret = frames["target"].ret
    /\ (Resolved /\ call_n = LoopLast + 1) =>
          /\ ULLValue(frames["host"].ret) = 40320
          /\ frames["host"].ret # frames["target"].ret

C10_Witness ==
    /\ Resolved
    /\ call_n = LoopLast + 1
    /\ ovfMode = "wrap"
    /\ frames["target"].fac < 0
    /\ frames["target"].ret # Trapped

====
